---- MODULE Spec2Model ----
(***************************************************************************)
(* The signaling relay of src/unnamed/part_000 (first variant, lines       *)
(* 1-195): the two process-wide registries `rooms` and `mediaStates`, the  *)
(* socket.io room membership the handlers drive with socket.join /         *)
(* socket.leave, and one action per inbound event handler.  Every handler  *)
(* runs to completion (Node's single-threaded event loop), so a handler is *)
(* one atomic step.  The browser page that talks to the relay              *)
(* (ChatAndVideo.tsx) follows the server.                                  *)
(***************************************************************************)
EXTENDS Integers, Sequences, FiniteSets, TLC

VARIABLES
  rooms,        \* roomId -> (socketId -> {socketId, userId, displayName, photoURL})
  mediaStates,  \* roomId -> (socketId -> {audioEnabled, videoEnabled, isScreenSharing})
  sids,         \* transport: live socket id -> the broadcast groups it is in
  closed,       \* socket ids whose connection has been lost (ids are never reused)
  ev,           \* the inbound event the last handler processed
  out,          \* the emissions the last handler made, in program order
  client,       \* socket id -> the state of the browser page behind that connection
  inbox,        \* socket id -> events the server emitted to it, not yet processed by the page
  sent          \* socket id -> events the page emitted, not yet handled by the server

vars == <<rooms, mediaStates, sids, closed, ev, out, client, inbox, sent>>

----------------------------------------------------------------------------
(* Bounds and input sets *)

\* `undefined` of the source: an absent optional field, a failed lookup
Undefined == "undefined"

\* the capacity test `currentCount >= 10`
MaxRoomSize == 10

\* connections that only connect and join room "r1" (they fill it up)
NumFillers == 9
FillerIds == <<"f01", "f02", "f03", "f04", "f05", "f06", "f07", "f08", "f09", "f10", "f11", "f12">>
Fillers == {FillerIds[k] : k \in 1..NumFillers}

\* connections that send every kind of event
Active == {"s1", "s2", "s3"}
Sockets == Active \cup Fillers

\* Room ids are caller-supplied opaque strings: "s2" is also the id of a
\* connection, which the server does not rule out.
RoomIds == {"r1", "s2"}

EmptyMap == [k \in {} |-> k]

Put(f, k, v) == [x \in (DOMAIN f) \cup {k} |-> IF x = k THEN v ELSE f[x]]

Del(f, k) == [x \in (DOMAIN f) \ {k} |-> f[x]]

\* the arguments (userId, displayName, photoURL) a connection joins with
ProfileOf(s) ==
  CASE s = "s1" -> [userId |-> "u1", displayName |-> "Ana", photoURL |-> "ana.png"]
    [] s = "s2" -> [userId |-> "u2", displayName |-> "Ben", photoURL |-> Undefined]
    [] s = "s3" -> [userId |-> "u3", displayName |-> "Cy", photoURL |-> "cy.png"]
    [] OTHER    -> [userId |-> s, displayName |-> s, photoURL |-> Undefined]

FillerIndex(s) == CHOOSE k \in 1..NumFillers : FillerIds[k] = s

----------------------------------------------------------------------------
(* Transport (socket.io) delivery primitives as the handlers use them *)

Live == DOMAIN sids

\* io.to(g): every live socket in broadcast group g
InGroup(m, g) == {s \in DOMAIN m : g \in m[s]}

\* socket.emit: the socket itself
ToSelf(s) == {s}

\* the broadcast made with io.to(g), which does not leave the sender out
ToOthers_IncludesSender(m, g, s) == InGroup(m, g)

\* socket.to(g): every live socket in group g except the sender
ToOthers(m, g, s) == InGroup(m, g) \ {s}

Emit(name, to, data) == [name |-> name, to |-> to, data |-> data]

Event(type, s, r, arg) == [type |-> type, sock |-> s, roomId |-> r, arg |-> arg]

\* a step of the server alone: no page is attached to the connections
ServerOnly == UNCHANGED <<client, inbox, sent>>

----------------------------------------------------------------------------
Init ==
  /\ rooms = EmptyMap
  /\ mediaStates = EmptyMap
  /\ sids = EmptyMap
  /\ closed = {}
  /\ ev = Event("none", Undefined, Undefined, <<>>)
  /\ out = <<>>
  /\ client = EmptyMap
  /\ inbox = EmptyMap
  /\ sent = EmptyMap

\* io.on("connection"): the transport puts the socket in the group named by its id
Connection(s) ==
  /\ s \notin Live
  /\ s \notin closed
  /\ s \in Fillers =>
       \A k \in 1..(FillerIndex(s) - 1) :
          "r1" \in DOMAIN rooms /\ FillerIds[k] \in DOMAIN rooms["r1"]
  /\ sids' = Put(sids, s, {s})
  /\ ev' = Event("connection", s, Undefined, <<>>)
  /\ out' = <<>>
  /\ UNCHANGED <<rooms, mediaStates, closed>>

CurrentCount(r) == IF r \in DOMAIN rooms THEN Cardinality(DOMAIN rooms[r]) ELSE 0

\* the capacity test written `>` instead of `>=`
RoomIsFull_OffByOne(r) == CurrentCount(r) > MaxRoomSize

\* the capacity test of join:room, `currentCount >= 10`
RoomIsFull(r) == CurrentCount(r) >= MaxRoomSize

DefaultMediaState == [audioEnabled |-> TRUE, videoEnabled |-> TRUE, isScreenSharing |-> FALSE]

\* the second variant of the server keeps no screen-sharing flag
DefaultMediaStateV2 == [audioEnabled |-> TRUE, videoEnabled |-> TRUE]

Participant(s, p) ==
  [socketId |-> s, userId |-> p.userId, displayName |-> p.displayName, photoURL |-> p.photoURL]

RoomOrEmpty(reg, r) == IF r \in DOMAIN reg THEN reg[r] ELSE EmptyMap

\* the snapshot taken without the filter on the joiner's own id
ExistingUsers_NoFilter(room, s) == {room[id] : id \in DOMAIN room}

\* Object.entries(rooms[roomId]).filter(([id]) => id !== socket.id).map(...);
\* the order of the entries is not modelled
ExistingUsers(room, s) == {room[id] : id \in (DOMAIN room) \ {s}}

\* socket.join(roomId) placed before the capacity test
JoinRejected_AfterGroupJoin(s, r) ==
  /\ out' = <<Emit("room:full", ToSelf(s), <<>>)>>
  /\ sids' = [sids EXCEPT ![s] = @ \cup {r}]
  /\ UNCHANGED <<rooms, mediaStates, closed>>

\* the early return of join:room
JoinRejected(s, r) ==
  /\ out' = <<Emit("room:full", ToSelf(s), <<>>)>>
  /\ UNCHANGED <<rooms, mediaStates, sids, closed>>

JoinAccepted(s, r, p, defaultState) ==
  LET sids2 == [sids EXCEPT ![s] = @ \cup {r}]
      room2 == Put(RoomOrEmpty(rooms, r), s, Participant(s, p))
      media2 == Put(RoomOrEmpty(mediaStates, r), s, defaultState)
  IN /\ sids' = sids2
     /\ rooms' = Put(rooms, r, room2)
     /\ mediaStates' = Put(mediaStates, r, media2)
     /\ out' = << Emit("room:joined", ToSelf(s),
                       [roomId |-> r, existingUsers |-> ExistingUsers(room2, s)]),
                  Emit("media:states", ToSelf(s), media2),
                  Emit("user:joined", ToOthers(sids2, r, s), Participant(s, p)) >>
     /\ UNCHANGED closed

JoinRoom(s, r, p) ==
  /\ s \in Live
  /\ ev' = Event("join:room", s, r, p)
  /\ IF RoomIsFull(r) THEN JoinRejected(s, r) ELSE JoinAccepted(s, r, p, DefaultMediaState)

JoinRoomV2(s, r, p) ==
  /\ s \in Live
  /\ ev' = Event("join:room", s, r, p)
  /\ IF RoomIsFull(r) THEN JoinRejected(s, r) ELSE JoinAccepted(s, r, p, DefaultMediaStateV2)

\* the lookup left out: no profile is attached to the signal
SenderInfo_NoLookup(r, from) ==
  [socketId |-> Undefined, userId |-> Undefined, displayName |-> Undefined,
   photoURL |-> Undefined]

\* the sender profile a signal is enriched with: rooms[roomId]?.[from]
SenderInfo(r, from) ==
  IF r \in DOMAIN rooms /\ from \in DOMAIN rooms[r]
  THEN rooms[r][from]
  ELSE [socketId |-> Undefined, userId |-> Undefined, displayName |-> Undefined,
        photoURL |-> Undefined]

\* the validation written `signal === undefined || to === undefined`
Falsy_UndefinedOnly(x) == x = Undefined

\* JavaScript falsiness of the values a signal's `to` and `signal` take here
Falsy(x) == x = Undefined \/ x = ""

Signal(s, d) ==
  /\ s \in Live
  /\ ev' = Event("signal", s, d.roomId, d)
  /\ IF Falsy(d.signal) \/ Falsy(d.to)
     THEN out' = <<>>
     ELSE LET senderInfo == SenderInfo(d.roomId, d.from)
          IN out' = << Emit("signal", InGroup(sids, d.to),
                            [from |-> d.from, signal |-> d.signal,
                             displayName |-> senderInfo.displayName,
                             userId |-> senderInfo.userId,
                             photoURL |-> senderInfo.photoURL]) >>
  /\ UNCHANGED <<rooms, mediaStates, sids, closed>>

\* an absent field reset to its default, `audioEnabled ?? true`
Coalesce_ResetsAbsent(opt, dflt) == IF Len(opt) = 0 THEN TRUE ELSE opt[1]

\* `x ?? y` on an optional argument, held as a sequence of zero or one value
Coalesce(opt, dflt) == IF Len(opt) = 0 THEN dflt ELSE opt[1]

\* the merged state written without the screen-sharing flag carried over
MergeMediaState_DropsScreen(current, audioEnabled, videoEnabled) ==
  [audioEnabled |-> Coalesce(audioEnabled, current.audioEnabled),
   videoEnabled |-> Coalesce(videoEnabled, current.videoEnabled),
   isScreenSharing |-> FALSE]

MergeMediaState(current, audioEnabled, videoEnabled) ==
  [audioEnabled |-> Coalesce(audioEnabled, current.audioEnabled),
   videoEnabled |-> Coalesce(videoEnabled, current.videoEnabled),
   isScreenSharing |-> current.isScreenSharing]

MediaState(s, r, audioEnabled, videoEnabled) ==
  /\ s \in Live
  /\ ev' = Event("media:state", s, r, [audioEnabled |-> audioEnabled, videoEnabled |-> videoEnabled])
  /\ LET media1 == RoomOrEmpty(mediaStates, r)
         current == IF s \in DOMAIN media1 THEN media1[s] ELSE DefaultMediaState
         merged == MergeMediaState(current, audioEnabled, videoEnabled)
     IN /\ mediaStates' = Put(mediaStates, r, Put(media1, s, merged))
        /\ out' = << Emit("media:state", ToOthers(sids, r, s),
                          [socketId |-> s, audioEnabled |-> merged.audioEnabled,
                           videoEnabled |-> merged.videoEnabled]) >>
  /\ UNCHANGED <<rooms, sids, closed>>

\* the flag broadcast but not stored
SetScreenSharing_NotStored(r, s, sharing) == mediaStates

\* mediaStates[roomId][socket.id].isScreenSharing = sharing, when the entry exists
SetScreenSharing(r, s, sharing) ==
  IF r \in DOMAIN mediaStates /\ s \in DOMAIN mediaStates[r]
  THEN [mediaStates EXCEPT ![r][s].isScreenSharing = sharing]
  ELSE mediaStates

ScreenShare(s, r, sharing) ==
  /\ s \in Live
  /\ ev' = Event("screen:share", s, r, sharing)
  /\ mediaStates' = SetScreenSharing(r, s, sharing)
  /\ LET senderInfo == SenderInfo(r, s)
     IN out' = << Emit("screen:share", ToOthers(sids, r, s),
                       [socketId |-> s, sharing |-> sharing,
                        displayName |-> senderInfo.displayName,
                        photoURL |-> senderInfo.photoURL]) >>
  /\ UNCHANGED <<rooms, sids, closed>>

ScreenShareStart(s, r) ==
  /\ s \in Live
  /\ ev' = Event("screen:share-start", s, r, <<>>)
  /\ mediaStates' = SetScreenSharing(r, s, TRUE)
  /\ LET senderInfo == SenderInfo(r, s)
     IN out' = << Emit("peer:screen-share-start", ToOthers(sids, r, s),
                       [socketId |-> s, displayName |-> senderInfo.displayName,
                        photoURL |-> senderInfo.photoURL]) >>
  /\ UNCHANGED <<rooms, sids, closed>>

ScreenShareStop(s, r) ==
  /\ s \in Live
  /\ ev' = Event("screen:share-stop", s, r, <<>>)
  /\ mediaStates' = SetScreenSharing(r, s, FALSE)
  /\ out' = << Emit("peer:screen-share-stop", ToOthers(sids, r, s), [socketId |-> s]) >>
  /\ UNCHANGED <<rooms, sids, closed>>

ScreenSignal(s, d) ==
  /\ s \in Live
  /\ ev' = Event("screen:signal", s, d.roomId, d)
  /\ out' = << Emit("screen:signal", InGroup(sids, d.to), [from |-> d.from, signal |-> d.signal]) >>
  /\ UNCHANGED <<rooms, mediaStates, sids, closed>>

\* the guard of leave:room testing the room only, `rooms[roomId]`
IsMember_RoomExists(r, s) == r \in DOMAIN rooms

\* rooms[roomId]?.[socket.id]
IsMember(r, s) == r \in DOMAIN rooms /\ s \in DOMAIN rooms[r]

\* the media-state entry left behind
DeleteMediaEntry_Skip(r, s) == mediaStates

\* delete mediaStates[roomId]?.[socket.id]
DeleteMediaEntry(r, s) ==
  IF r \in DOMAIN mediaStates
  THEN Put(mediaStates, r, Del(mediaStates[r], s))
  ELSE mediaStates

LeaveRoom(s, r) ==
  /\ s \in Live
  /\ ev' = Event("leave:room", s, r, <<>>)
  /\ IF IsMember(r, s)
     THEN LET room2 == Del(rooms[r], s)
              media2 == DeleteMediaEntry(r, s)
          IN /\ out' = << Emit("user:left", ToOthers(sids, r, s), s) >>
             /\ sids' = [sids EXCEPT ![s] = @ \ {r}]
             /\ IF DOMAIN room2 = {}
                THEN /\ rooms' = Del(rooms, r)
                     /\ mediaStates' = Del(media2, r)
                ELSE /\ rooms' = Put(rooms, r, room2)
                     /\ mediaStates' = media2
             /\ UNCHANGED closed
     ELSE /\ out' = <<>>
          /\ UNCHANGED <<rooms, mediaStates, sids, closed>>

IsSpace(c) == c = " "

\* String.prototype.trim on a message held as a sequence of characters
RECURSIVE TrimStart(_)
TrimStart(m) == IF m # <<>> /\ IsSpace(Head(m)) THEN TrimStart(Tail(m)) ELSE m

RECURSIVE TrimEnd(_)
TrimEnd(m) ==
  IF m # <<>> /\ IsSpace(m[Len(m)]) THEN TrimEnd(SubSeq(m, 1, Len(m) - 1)) ELSE m

Trim(m) == TrimEnd(TrimStart(m))

\* `now` is the server clock read by new Date()
ChatMessage(s, r, userId, message, now) ==
  /\ s \in Live
  /\ ev' = Event("chat:message", s, r, [userId |-> userId, message |-> message])
  /\ out' = << Emit("chat:message", InGroup(sids, r),
                    [userId |-> userId, message |-> Trim(message), timestamp |-> now]) >>
  /\ UNCHANGED <<rooms, mediaStates, sids, closed>>

\* every order in which the elements of S can be visited
Orders(S) ==
  {q \in [1..Cardinality(S) -> S] : \A i, j \in 1..Cardinality(S) : i # j => q[i] # q[j]}

\* the disconnect loop stopping at the first room it finds
RoomsOf_FirstOnly(s) ==
  LET all == {r \in DOMAIN rooms : s \in DOMAIN rooms[r]}
  IN IF all = {} THEN {} ELSE {CHOOSE r \in all : TRUE}

\* the rooms the disconnect loop acts on: those with rooms[roomId][socket.id]
RoomsOf(s) == {r \in DOMAIN rooms : s \in DOMAIN rooms[r]}

\* every room the connection was in deleted, whoever remains in it
Emptied_Regardless(s) == RoomsOf(s)

\* the rooms the loop deletes: Object.keys(rooms[roomId]).length === 0
Emptied(s) == {r \in RoomsOf(s) : DOMAIN rooms[r] = {s}}

\* the participant entries left in place on disconnect
RoomsAfterDisconnect_Kept(s) == rooms

RoomsAfterDisconnect(s) ==
  [r \in (DOMAIN rooms) \ Emptied(s) |->
     IF r \in RoomsOf(s) THEN Del(rooms[r], s) ELSE rooms[r]]

MediaAfterDisconnect(s) ==
  [r \in (DOMAIN mediaStates) \ Emptied(s) |->
     IF r \in RoomsOf(s) THEN Del(mediaStates[r], s) ELSE mediaStates[r]]

\* the second variant deletes rooms[roomId] only
MediaAfterDisconnectV2(s) ==
  [r \in DOMAIN mediaStates |->
     IF r \in RoomsOf(s) THEN Del(mediaStates[r], s) ELSE mediaStates[r]]

\* The transport has already taken the socket out of every group when the
\* handler runs.  The loop visits the rooms in the registry's key order, which
\* the model does not track: every order is allowed.
DisconnectWith(s, media2) ==
  /\ s \in Live
  /\ ev' = Event("disconnect", s, Undefined, <<>>)
  /\ LET sids2 == Del(sids, s)
         mine == RoomsOf(s)
     IN /\ sids' = sids2
        /\ closed' = closed \cup {s}
        /\ rooms' = RoomsAfterDisconnect(s)
        /\ mediaStates' = media2
        /\ \E order \in Orders(mine) :
             out' = [i \in 1..Cardinality(mine) |->
                       Emit("user:left", ToOthers(sids2, order[i], s), s)]

Disconnect(s) == DisconnectWith(s, MediaAfterDisconnect(s))

DisconnectV2(s) == DisconnectWith(s, MediaAfterDisconnectV2(s))

----------------------------------------------------------------------------
(* Inputs the events are drawn from *)

\* an optional boolean argument: absent, true or false
OptBool == {<<>>, <<TRUE>>, <<FALSE>>}

\* connections that send media:state and screen:share, and the room they name
MediaSenders == {"s1"}
MediaRooms == {"r1"}

\* connections that send signal and chat:message
Senders == {"s1", "s3"}

\* signal payloads: well-formed ones (some with a `from` that is not the
\* sender), then ones whose `to` or `signal` is missing or empty
SignalData ==
  [to : {"s2", "s3"}, from : {"s1", "s2"}, signal : {"offer"}, roomId : {"r1"}]
    \cup [to : {"s3"}, from : {"s1"}, signal : {"{}"}, roomId : {"r1"}]
    \cup [to : {Undefined, ""}, from : {"s1"}, signal : {"offer"}, roomId : {"r1"}]
    \cup [to : {"s2"}, from : {"s1"}, signal : {Undefined, ""}, roomId : {"r1"}]

ScreenSignalData ==
  [to : {"s2", Undefined}, from : {"s1"}, signal : {"offer"}, roomId : {"r1"}]

Messages == {<<" ", "h", "i", " ">>, <<"o", " ", "k">>}

\* readings of the server clock
MaxClock == 2

Next ==
  \/ \E s \in Active : Connection(s) /\ ServerOnly
  \/ \E s \in Active, r \in RoomIds : JoinRoom(s, r, ProfileOf(s)) /\ ServerOnly
  \/ \E s \in Senders, d \in SignalData : Signal(s, d) /\ ServerOnly
  \/ \E s \in MediaSenders, r \in MediaRooms, a \in OptBool, v \in OptBool : MediaState(s, r, a, v) /\ ServerOnly
  \/ \E s \in MediaSenders, r \in MediaRooms, sharing \in BOOLEAN : ScreenShare(s, r, sharing) /\ ServerOnly
  \/ \E s \in MediaSenders, r \in MediaRooms : ScreenShareStart(s, r) /\ ServerOnly
  \/ \E s \in MediaSenders, r \in MediaRooms : ScreenShareStop(s, r) /\ ServerOnly
  \/ \E s \in MediaSenders, d \in ScreenSignalData : ScreenSignal(s, d) /\ ServerOnly
  \/ \E s \in Active, r \in RoomIds : LeaveRoom(s, r) /\ ServerOnly
  \/ \E s \in Senders, r \in RoomIds, m \in Messages, now \in 1..MaxClock :
        ChatMessage(s, r, ProfileOf(s).userId, m, now) /\ ServerOnly
  \/ \E s \in Active : Disconnect(s) /\ ServerOnly

Spec == Init /\ [][Next]_vars

\* The membership lifecycle alone (connect, join, leave, disconnect), with
\* enough connections to fill a room.
NextLifecycle ==
  \/ \E s \in Sockets : Connection(s) /\ ServerOnly
  \/ \E s \in Active, r \in RoomIds : JoinRoom(s, r, ProfileOf(s)) /\ ServerOnly
  \/ \E s \in Fillers : JoinRoom(s, "r1", ProfileOf(s)) /\ ServerOnly
  \/ \E s \in Active, r \in RoomIds : LeaveRoom(s, r) /\ ServerOnly
  \/ \E s \in Active : Disconnect(s) /\ ServerOnly

SpecLifecycle == Init /\ [][NextLifecycle]_vars

\* The membership lifecycle of the second variant of the server (lines 196-346).
NextLifecycleV2 ==
  \/ \E s \in Active : Connection(s) /\ ServerOnly
  \/ \E s \in Active, r \in RoomIds : JoinRoomV2(s, r, ProfileOf(s)) /\ ServerOnly
  \/ \E s \in Active, r \in RoomIds : LeaveRoom(s, r) /\ ServerOnly
  \/ \E s \in Active : DisconnectV2(s) /\ ServerOnly

SpecLifecycleV2 == Init /\ [][NextLifecycleV2]_vars

----------------------------------------------------------------------------
(* The browser page of src/eisc-meet/src/pages/ChatAndVideo/ChatAndVideo.tsx, *)
(* one per connection.  A page's listeners and callbacks run to completion,   *)
(* one at a time.  State that is only displayed (chat messages, remote        *)
(* streams, the waiting card, isInitiatorRef, which is written and never      *)
(* read) is not held.                                                         *)

\* the pages that open a connection
Clients == Active

\* the roomId of the page URL
PageRoom == "r1"

\* the pages whose user presses the mute button
Muters == {"s1"}

\* the pages that are closed or lose their connection
Closers == {"s1"}

\* MAX_REMOTE_PEERS
MaxRemotePeers == 9

\* `{...a, ...b}`: the keys of both, with b's value where both have the key
Spread(a, b) == [k \in (DOMAIN a) \cup (DOMAIN b) |-> IF k \in DOMAIN b THEN b[k] ELSE a[k]]

\* `x || y` on strings
OrElse(x, y) == IF Falsy(x) THEN y ELSE x

\* the refs and React state of a freshly mounted page
InitialClient ==
  [localStream |-> FALSE, audioTrack |-> TRUE, myId |-> Undefined,
   participants |-> {}, userInfos |-> EmptyMap, mediaStates |-> EmptyMap,
   peers |-> EmptyMap, pendingSignals |-> EmptyMap, timers |-> {}]

\* the arguments of the page's join:room
JoinArgs(c) ==
  [userId |-> ProfileOf(c).userId,
   displayName |-> OrElse(ProfileOf(c).displayName, "Invitado"),
   photoURL |-> OrElse(ProfileOf(c).photoURL, "")]

\* the server's emissions put, in program order, in the inbox of each recipient
RECURSIVE Deliver(_, _)
Deliver(box, emissions) ==
  IF emissions = <<>>
  THEN box
  ELSE LET e == Head(emissions)
       IN Deliver([c \in DOMAIN box |->
                     IF c \in e.to THEN Append(box[c], [name |-> e.name, data |-> e.data])
                     ELSE box[c]],
                  Tail(emissions))

\* a step of a page alone
ClientOnly == UNCHANGED <<rooms, mediaStates, sids, closed, ev, out>>

\* the page creates its socket and the server's connection handler runs
Open(c) ==
  /\ Connection(c)
  /\ client' = Put(client, c, InitialClient)
  /\ inbox' = Put(inbox, c, <<>>)
  /\ sent' = Put(sent, c, <<>>)

\* getUserMedia resolves: the stream is kept and join:room is emitted
StreamReady(c) ==
  /\ c \in DOMAIN client
  /\ ~client[c].localStream
  /\ client' = [client EXCEPT ![c].localStream = TRUE]
  /\ sent' = [sent EXCEPT ![c] = Append(@, Event("join:room", c, PageRoom, JoinArgs(c)))]
  /\ UNCHANGED inbox
  /\ ClientOnly

\* toggleMute, pressed while the audio track is enabled
ToggleMute(c) ==
  /\ c \in DOMAIN client
  /\ client[c].localStream
  /\ client[c].audioTrack
  /\ LET cs == client[c]
         enabled == ~cs.audioTrack
         key == OrElse(cs.myId, "self")
         prev == cs.mediaStates
         entry == [audioEnabled |-> enabled,
                   videoEnabled |-> IF key \in DOMAIN prev THEN prev[key].videoEnabled ELSE TRUE,
                   isScreenSharing |-> IF key \in DOMAIN prev THEN prev[key].isScreenSharing ELSE FALSE]
     IN /\ client' = [client EXCEPT ![c].audioTrack = enabled,
                                    ![c].mediaStates = Put(prev, key, entry)]
        /\ sent' = [sent EXCEPT ![c] =
                      Append(@, Event("media:state", c, PageRoom,
                                      [audioEnabled |-> <<enabled>>, videoEnabled |-> <<>>]))]
  /\ UNCHANGED inbox
  /\ ClientOnly

\* the newest event of a connection handled first
InboundIndex_Newest(q) == Len(q)

\* the transport hands a connection's events to its handlers oldest first
InboundIndex(q) == 1

Inbound(s) == sent[s][InboundIndex(sent[s])]

Without(q, i) == SubSeq(q, 1, i - 1) \o SubSeq(q, i + 1, Len(q))

HasInbound(s, type) ==
  /\ s \in DOMAIN sent
  /\ sent[s] # <<>>
  /\ Inbound(s).type = type

\* the handler has run: its event is consumed and its emissions are in flight
Handled(s) ==
  /\ sent' = [sent EXCEPT ![s] = Without(@, InboundIndex(@))]
  /\ inbox' = Deliver(inbox, out')
  /\ UNCHANGED client

HandleJoinRoom(s) ==
  /\ HasInbound(s, "join:room")
  /\ JoinRoom(s, Inbound(s).roomId, Inbound(s).arg)
  /\ Handled(s)

HandleSignal(s) ==
  /\ HasInbound(s, "signal")
  /\ Signal(s, Inbound(s).arg)
  /\ Handled(s)

HandleMediaState(s) ==
  /\ HasInbound(s, "media:state")
  /\ MediaState(s, Inbound(s).roomId, Inbound(s).arg.audioEnabled, Inbound(s).arg.videoEnabled)
  /\ Handled(s)

\* the page is closed or its connection is lost: the server's disconnect
\* handler runs and nothing more reaches or leaves the page
Close(c) ==
  /\ c \in DOMAIN client
  /\ Disconnect(c)
  /\ client' = Del(client, c)
  /\ sent' = Del(sent, c)
  /\ inbox' = Deliver(Del(inbox, c), out')

NotFalsy(x) == ~Falsy(x)

\* the pending signals emptied without being given to the new peer
CreateOrReplacePeer_DropsPending(cs, targetUserId, initiator, initialSignal) ==
  IF ~cs.localStream
  THEN cs
  ELSE [cs EXCEPT !.peers = Put(@, targetUserId,
                                [initiator |-> initiator,
                                 signaled |-> SelectSeq(initialSignal, NotFalsy),
                                 emitted |-> FALSE]),
                  !.pendingSignals = IF targetUserId \in DOMAIN @ /\ @[targetUserId] # <<>>
                                     THEN Put(@, targetUserId, <<>>) ELSE @,
                  !.participants = @ \cup {targetUserId}]

\* createOrReplacePeer(targetUserId, initiator, initialSignal) on page state
\* cs; initialSignal is a sequence of zero or one signal.  A peer holds its
\* role, the signals given to peer.signal in order, and whether its own
\* description has been emitted.
CreateOrReplacePeer(cs, targetUserId, initiator, initialSignal) ==
  IF ~cs.localStream
  THEN cs
  ELSE LET pending == IF targetUserId \in DOMAIN cs.pendingSignals
                      THEN cs.pendingSignals[targetUserId] ELSE <<>>
           peer == [initiator |-> initiator,
                    signaled |-> SelectSeq(initialSignal, NotFalsy) \o SelectSeq(pending, NotFalsy),
                    emitted |-> FALSE]
       IN [cs EXCEPT !.peers = Put(@, targetUserId, peer),
                     !.pendingSignals = IF pending # <<>> THEN Put(@, targetUserId, <<>>) ELSE @,
                     !.participants = @ \cup {targetUserId}]

\* existingUsers.slice(0, MAX_REMOTE_PEERS); the order of the entries is not modelled
FirstPeers(users) ==
  IF Cardinality(users) <= MaxRemotePeers
  THEN users
  ELSE CHOOSE S \in SUBSET users : Cardinality(S) = MaxRemotePeers

\* the room:joined listener.  `muted` and `videoEnabled` are the values of the
\* render that registered the listener: false and true.
RoomJoined(cs, c, existingUsers) ==
  LET ids == {u.socketId : u \in existingUsers} \cup {c}
      userOf(k) == CHOOSE u \in existingUsers : u.socketId = k
      infos == [k \in ids |->
                  IF k = c
                  THEN [displayName |-> OrElse(ProfileOf(c).displayName, Undefined),
                        photoURL |-> OrElse(ProfileOf(c).photoURL, Undefined)]
                  ELSE [displayName |-> userOf(k).displayName, photoURL |-> userOf(k).photoURL]]
      media == [k \in ids |-> DefaultMediaState]
  IN [cs EXCEPT !.myId = c,
                !.participants = ids,
                !.userInfos = Spread(@, infos),
                !.mediaStates = Spread(media, @),
                !.timers = @ \cup {u.socketId : u \in FirstPeers(existingUsers)}]

\* the user:joined listener
UserJoined(cs, d) ==
  IF d.socketId \in cs.participants
  THEN cs
  ELSE [cs EXCEPT !.participants = @ \cup {d.socketId},
                  !.userInfos = Put(@, d.socketId, [displayName |-> d.displayName, photoURL |-> d.photoURL]),
                  !.mediaStates = Put(@, d.socketId, DefaultMediaState)]

\* a signal the listener recognises: it has a type, a candidate or renegotiate
Recognised(signal) == signal \in {"offer", "answer", "candidate", "renegotiate"}

PendingOf(cs, from) == IF from \in DOMAIN cs.pendingSignals THEN cs.pendingSignals[from] ELSE <<>>

\* the role of the peer created for a received offer
OfferedPeerInitiator_Initiates == TRUE

OfferedPeerInitiator == FALSE

\* the signal listener
SignalReceived(cs, d) ==
  IF Falsy(d.signal) \/ ~Recognised(d.signal)
  THEN cs
  ELSE LET prevInfo == IF d.from \in DOMAIN cs.userInfos
                       THEN cs.userInfos[d.from]
                       ELSE [displayName |-> Undefined, photoURL |-> Undefined]
           cs1 == [cs EXCEPT !.userInfos =
                     Put(@, d.from, [displayName |-> OrElse(d.displayName, prevInfo.displayName),
                                     photoURL |-> OrElse(d.photoURL, prevInfo.photoURL)])]
       IN IF d.from \in DOMAIN cs.peers
          THEN [cs1 EXCEPT !.peers[d.from].signaled = Append(@, d.signal)]
          ELSE IF d.signal = "offer" /\ cs.localStream
               THEN CreateOrReplacePeer(cs1, d.from, OfferedPeerInitiator, <<d.signal>>)
               ELSE [cs1 EXCEPT !.pendingSignals = Put(@, d.from, Append(PendingOf(cs, d.from), d.signal))]

\* the user:left listener
UserLeft(cs, userId) ==
  [cs EXCEPT !.peers = Del(@, userId), !.participants = @ \ {userId}]

\* the media:states listener, `{...state, ...prev}`
MediaStatesReceived(cs, state) == [cs EXCEPT !.mediaStates = Spread(state, @)]

\* the media:state listener; the server's payload always carries both
\* audioEnabled and videoEnabled, so the `??` fallbacks are never taken
MediaStateReceived(cs, d) ==
  LET prev == cs.mediaStates
      had == d.socketId \in DOMAIN prev
  IN [cs EXCEPT !.mediaStates =
        Put(prev, d.socketId,
            [audioEnabled |-> d.audioEnabled,
             videoEnabled |-> d.videoEnabled,
             isScreenSharing |-> IF had THEN prev[d.socketId].isScreenSharing ELSE FALSE])]

\* the page's socket hands it the oldest event in flight
Receives(c, name) ==
  /\ c \in DOMAIN client
  /\ inbox[c] # <<>>
  /\ Head(inbox[c]).name = name

Received(c, cs) ==
  /\ client' = [client EXCEPT ![c] = cs]
  /\ inbox' = [inbox EXCEPT ![c] = Tail(@)]
  /\ UNCHANGED sent
  /\ ClientOnly

OnRoomJoined(c) ==
  /\ Receives(c, "room:joined")
  /\ Received(c, RoomJoined(client[c], c, Head(inbox[c]).data.existingUsers))

OnUserJoined(c) ==
  /\ Receives(c, "user:joined")
  /\ Received(c, UserJoined(client[c], Head(inbox[c]).data))

OnSignal(c) ==
  /\ Receives(c, "signal")
  /\ Received(c, SignalReceived(client[c], Head(inbox[c]).data))

OnUserLeft(c) ==
  /\ Receives(c, "user:left")
  /\ Received(c, UserLeft(client[c], Head(inbox[c]).data))

OnMediaStates(c) ==
  /\ Receives(c, "media:states")
  /\ Received(c, MediaStatesReceived(client[c], Head(inbox[c]).data))

OnMediaState(c) ==
  /\ Receives(c, "media:state")
  /\ Received(c, MediaStateReceived(client[c], Head(inbox[c]).data))

\* the callback of the 300 ms timer set by the room:joined listener
InitiatorTimeout(c, userId) ==
  /\ c \in DOMAIN client
  /\ userId \in client[c].timers
  /\ LET cs1 == [client[c] EXCEPT !.timers = @ \ {userId}]
     IN client' = [client EXCEPT ![c] =
                     IF cs1.localStream THEN CreateOrReplacePeer(cs1, userId, TRUE, <<>>) ELSE cs1]
  /\ UNCHANGED <<inbox, sent>>
  /\ ClientOnly

\* the description a peer has to send: an initiator its offer, a responder
\* its answer once it was given an offer (trickle is off)
Description(peer) ==
  IF peer.initiator THEN "offer"
  ELSE IF \E i \in 1..Len(peer.signaled) : peer.signaled[i] = "offer" THEN "answer"
  ELSE Undefined

\* peer.on("signal"): the peer's description is emitted to the server
PeerSignal(c, targetUserId) ==
  /\ c \in DOMAIN client
  /\ targetUserId \in DOMAIN client[c].peers
  /\ ~client[c].peers[targetUserId].emitted
  /\ Description(client[c].peers[targetUserId]) # Undefined
  /\ client' = [client EXCEPT ![c].peers[targetUserId].emitted = TRUE]
  /\ sent' = [sent EXCEPT ![c] =
                Append(@, Event("signal", c, PageRoom,
                                [to |-> targetUserId, from |-> c,
                                 signal |-> Description(client[c].peers[targetUserId]),
                                 roomId |-> PageRoom]))]
  /\ UNCHANGED inbox
  /\ ClientOnly

\* Pages and server together: every event the server handles was emitted by a
\* page, and every emission of the server is processed by the page it reaches.
NextMeeting ==
  \/ \E c \in Clients : Open(c)
  \/ \E c \in Clients : StreamReady(c)
  \/ \E c \in Muters : ToggleMute(c)
  \/ \E c \in Clients : HandleJoinRoom(c)
  \/ \E c \in Clients : HandleSignal(c)
  \/ \E c \in Clients : HandleMediaState(c)
  \/ \E c \in Clients : OnRoomJoined(c)
  \/ \E c \in Clients : OnUserJoined(c)
  \/ \E c \in Clients : OnSignal(c)
  \/ \E c \in Clients : OnUserLeft(c)
  \/ \E c \in Clients : OnMediaStates(c)
  \/ \E c \in Clients : OnMediaState(c)
  \/ \E c \in Clients, userId \in Clients : InitiatorTimeout(c, userId)
  \/ \E c \in Clients, userId \in Clients : PeerSignal(c, userId)
  \/ \E c \in Closers : Close(c)

SpecMeeting == Init /\ [][NextMeeting]_vars

\* One page and a connection that is not a page: it emits a burst of events
\* of its own making, which the server handles like any other.
Pages == {"s1"}

Strangers == {"s2"}

\* the length of a stranger's burst
MaxScript == 3

\* what a stranger emits: join:room, and signals addressed to the page, one
\* of them an object with no type, candidate or renegotiate
ScriptEvents(s) ==
  {Event("join:room", s, PageRoom, ProfileOf(s))}
    \cup {Event("signal", s, PageRoom, [to |-> c, from |-> s, signal |-> g, roomId |-> PageRoom]) :
            c \in Pages, g \in {"offer", "candidate", "{}"}}

Scripts(s) == UNION {[1..n -> ScriptEvents(s)] : n \in 1..MaxScript}

StrangerConnects(s, script) ==
  /\ Connection(s)
  /\ sent' = Put(sent, s, script)
  /\ UNCHANGED <<client, inbox>>

StrangerDisconnects(s) ==
  /\ s \in DOMAIN sent
  /\ Disconnect(s)
  /\ sent' = Del(sent, s)
  /\ inbox' = Deliver(inbox, out')
  /\ UNCHANGED client

NextSignaling ==
  \/ \E c \in Pages : Open(c)
  \/ \E c \in Pages : StreamReady(c)
  \/ \E s \in Strangers : \E script \in Scripts(s) : StrangerConnects(s, script)
  \/ \E s \in Pages \cup Strangers : HandleJoinRoom(s)
  \/ \E s \in Pages \cup Strangers : HandleSignal(s)
  \/ \E c \in Pages : OnRoomJoined(c)
  \/ \E c \in Pages : OnMediaStates(c)
  \/ \E c \in Pages : OnUserJoined(c)
  \/ \E c \in Pages : OnSignal(c)
  \/ \E c \in Pages : OnUserLeft(c)
  \/ \E c \in Pages, userId \in Strangers : InitiatorTimeout(c, userId)
  \/ \E c \in Pages, userId \in Strangers : PeerSignal(c, userId)
  \/ \E s \in Strangers : StrangerDisconnects(s)

SpecSignaling == Init /\ [][NextSignaling]_vars

----------------------------------------------------------------------------
(* Properties *)

\* the key set of room r in a registry (empty when the registry has no r)
Keys(reg, r) == DOMAIN RoomOrEmpty(reg, r)

\* C1: no room ever holds more than 10 participants, and a join:room from a
\* connection that is not a member of a room with 10 members gets room:full
\* and is not added to the room.
C1_Capacity ==
  [][ /\ \A r \in DOMAIN rooms' : Cardinality(DOMAIN rooms'[r]) <= 10
      /\ ( /\ ev'.type = "join:room"
           /\ Cardinality(Keys(rooms, ev'.roomId)) = 10
           /\ ev'.sock \notin Keys(rooms, ev'.roomId) )
         => /\ out' = <<Emit("room:full", {ev'.sock}, <<>>)>>
            /\ ev'.sock \notin Keys(rooms', ev'.roomId)
            /\ Cardinality(Keys(rooms', ev'.roomId)) = 10 ]_vars

C1_Witness ==
  /\ ev.type = "join:room"
  /\ out # <<>> /\ out[1].name = "room:full"
  /\ Cardinality(Keys(rooms, ev.roomId)) = 10
  /\ ev.sock \notin Keys(rooms, ev.roomId)

\* C2: between handlers, under any events (media:state from a connection that
\* is not a member included), a room's participant keys equal its media-state
\* keys.
C2_SameKeySets ==
  \A r \in (DOMAIN rooms) \cup (DOMAIN mediaStates) : Keys(rooms, r) = Keys(mediaStates, r)

\* C3: after join:room, leave:room and disconnect events only, every room of
\* the participant registry has a media-state map with the same keys.
C3_SurvivingRoomsSameKeys ==
  \A r \in DOMAIN rooms : r \in DOMAIN mediaStates /\ DOMAIN rooms[r] = DOMAIN mediaStates[r]

C3_Witness ==
  /\ ev.type \in {"leave:room", "disconnect"}
  /\ out # <<>>
  /\ \E r \in DOMAIN rooms : out[1].to \cap DOMAIN rooms[r] # {}

\* C4: every room id that is a key of either registry has at least one
\* participant.
C4_NoMemberlessRoom ==
  \A r \in (DOMAIN rooms) \cup (DOMAIN mediaStates) : Keys(rooms, r) # {}

\* C5: a join:room rejected for capacity changes neither registry nor the
\* transport groups and emits room:full to the requester and nothing else.
C5_RejectedJoinNoMutation ==
  [][ (ev'.type = "join:room" /\ Cardinality(Keys(rooms, ev'.roomId)) >= 10)
        => /\ rooms' = rooms
           /\ mediaStates' = mediaStates
           /\ sids' = sids
           /\ out' = <<Emit("room:full", {ev'.sock}, <<>>)>> ]_vars

C5_Witness ==
  /\ ev.type = "join:room"
  /\ out = <<Emit("room:full", {ev.sock}, <<>>)>>
  /\ ev.roomId \notin sids[ev.sock]
  /\ Cardinality(Keys(mediaStates, ev.roomId)) = 10

\* C6: on a successful join of m1, every other member m2 of the room receives
\* user:joined with m1's id and profile, and m1 receives room:joined whose
\* existingUsers has an entry for each such m2 and none for m1.
C6_JoinNotifications ==
  (ev.type = "join:room" /\ Len(out) = 3) =>
    LET m1 == ev.sock
        others == Keys(rooms, ev.roomId) \ {ev.sock}
    IN /\ out[1].name = "room:joined" /\ out[1].to = {m1}
       /\ {u.socketId : u \in out[1].data.existingUsers} = others
       /\ \A m2 \in others : rooms[ev.roomId][m2] \in out[1].data.existingUsers
       /\ out[3].name = "user:joined"
       /\ \A m2 \in others : m2 \in out[3].to
       /\ out[3].data = [socketId |-> m1, userId |-> ev.arg.userId,
                         displayName |-> ev.arg.displayName, photoURL |-> ev.arg.photoURL]

C6_Witness ==
  /\ ev.type = "join:room" /\ Len(out) = 3
  /\ Cardinality(Keys(rooms, ev.roomId) \ {ev.sock}) = 2
  /\ Cardinality(out[1].data.existingUsers) = 2

\* C7: leave:room by a member removes it from both maps and broadcasts one
\* user:left to the remaining members; leave:room by a connection that is not
\* (or no longer) a member changes nothing and emits nothing; a disconnect
\* leaves untouched every room the connection is not (or no longer) in and
\* emits one user:left per room it is still in.
C7_LeaveIdempotent ==
  [][ /\ (ev'.type = "leave:room" /\ ev'.sock \in Keys(rooms, ev'.roomId))
         => /\ ev'.sock \notin Keys(rooms', ev'.roomId)
            /\ ev'.sock \notin Keys(mediaStates', ev'.roomId)
            /\ Len(out') = 1 /\ out'[1].name = "user:left" /\ out'[1].data = ev'.sock
            /\ Keys(rooms', ev'.roomId) \subseteq out'[1].to
      /\ (ev'.type = "leave:room" /\ ev'.sock \notin Keys(rooms, ev'.roomId))
         => /\ rooms' = rooms /\ mediaStates' = mediaStates /\ out' = <<>>
      /\ ev'.type = "disconnect"
         => /\ \A r \in RoomIds :
                 ev'.sock \notin Keys(rooms, r)
                   => /\ RoomOrEmpty(rooms', r) = RoomOrEmpty(rooms, r)
                      /\ RoomOrEmpty(mediaStates', r) = RoomOrEmpty(mediaStates, r)
            /\ Len(out') = Cardinality({r \in RoomIds : ev'.sock \in Keys(rooms, r)}) ]_vars

C7_Witness ==
  /\ ev.type = "leave:room"
  /\ out = <<>>
  /\ ev.sock \in Live
  /\ ev.roomId \in DOMAIN rooms
  /\ ev.sock \notin DOMAIN rooms[ev.roomId]

\* C8: a disconnect of c removes c from the participant and media-state maps
\* of every room c is in, delivers user:left for c to every remaining member
\* of each, and deletes each room it emptied.
C8_DisconnectLeavesAll ==
  [][ ev'.type = "disconnect" =>
        \A r \in RoomIds :
          ev'.sock \in Keys(rooms, r) =>
            /\ ev'.sock \notin Keys(rooms', r)
            /\ ev'.sock \notin Keys(mediaStates', r)
            /\ \A m \in Keys(rooms, r) \ {ev'.sock} :
                 \E i \in 1..Len(out') :
                    out'[i].name = "user:left" /\ out'[i].data = ev'.sock /\ m \in out'[i].to
            /\ Keys(rooms, r) = {ev'.sock}
                 => (r \notin DOMAIN rooms' /\ r \notin DOMAIN mediaStates') ]_vars

C8_Witness ==
  /\ ev.type = "disconnect"
  /\ Len(out) = 2
  /\ out[1].to # {} /\ out[2].to # {}
  /\ \A r \in DOMAIN rooms : ev.sock \notin DOMAIN rooms[r]

\* C9: a forwarded signal is delivered to the connection whose id is `to` and
\* to no other connection.
C9_StrictlyUnicast ==
  (ev.type = "signal" /\ out # <<>>) => out[1].to \subseteq {ev.arg.to}

\* C10: a signal whose payload or `to` is missing or empty emits nothing and
\* changes neither registry.
C10_MalformedSignalDropped ==
  [][ ( /\ ev'.type = "signal"
        /\ (ev'.arg.signal \in {Undefined, ""} \/ ev'.arg.to \in {Undefined, ""}) )
        => /\ out' = <<>>
           /\ rooms' = rooms
           /\ mediaStates' = mediaStates ]_vars

C10_Witness ==
  /\ ev.type = "signal"
  /\ ev.arg.signal = "" \/ ev.arg.to = Undefined
  /\ out = <<>>

\* C11: a forwarded signal carries the payload and the `from` it was sent
\* with, and the displayName, userId and photoURL stored for (roomId, from);
\* when the store has no such participant the signal is still forwarded, with
\* the three profile fields absent.
C11_SignalEnriched ==
  ( /\ ev.type = "signal"
    /\ ev.arg.signal \notin {Undefined, ""}
    /\ ev.arg.to \notin {Undefined, ""} )
  => /\ Len(out) = 1
     /\ out[1].name = "signal"
     /\ out[1].data.from = ev.arg.from
     /\ out[1].data.signal = ev.arg.signal
     /\ IF ev.arg.from \in Keys(rooms, ev.arg.roomId)
        THEN LET stored == rooms[ev.arg.roomId][ev.arg.from]
             IN /\ out[1].data.displayName = stored.displayName
                /\ out[1].data.userId = stored.userId
                /\ out[1].data.photoURL = stored.photoURL
        ELSE /\ out[1].data.displayName = Undefined
             /\ out[1].data.userId = Undefined
             /\ out[1].data.photoURL = Undefined

C11_Witness ==
  /\ ev.type = "signal"
  /\ out # <<>>
  /\ ev.arg.from \in Keys(rooms, ev.arg.roomId)
  /\ out[1].data.userId = rooms[ev.arg.roomId][ev.arg.from].userId
  /\ out[1].data.photoURL = "ana.png"

\* C12: a chat:message sent to room r by a member is delivered once to every
\* member of r, the sender included, with the trimmed text, and to no
\* connection outside r; neither registry changes.
C12_ChatFanOut ==
  (ev.type = "chat:message" /\ ev.sock \in Keys(rooms, ev.roomId))
  => /\ Len(out) = 1
     /\ out[1].name = "chat:message"
     /\ out[1].data.message = Trim(ev.arg.message)
     /\ out[1].to = Keys(rooms, ev.roomId)

\* C13: media:state merges into the member's stored state: a field the event
\* does not carry keeps its stored value, a field it carries takes the value
\* sent, and the media:state broadcast carries the merged audioEnabled and
\* videoEnabled.
C13_PartialMerge ==
  [][ (ev'.type = "media:state" /\ ev'.sock \in Keys(mediaStates, ev'.roomId))
        => LET old == mediaStates[ev'.roomId][ev'.sock]
               new == mediaStates'[ev'.roomId][ev'.sock]
               a == ev'.arg.audioEnabled
               v == ev'.arg.videoEnabled
           IN /\ new.audioEnabled = (IF a = <<>> THEN old.audioEnabled ELSE a[1])
              /\ new.videoEnabled = (IF v = <<>> THEN old.videoEnabled ELSE v[1])
              /\ Len(out') = 1
              /\ out'[1].name = "media:state"
              /\ out'[1].data = [socketId |-> ev'.sock,
                                 audioEnabled |-> new.audioEnabled,
                                 videoEnabled |-> new.videoEnabled] ]_vars

C13_Witness ==
  /\ ev.type = "media:state"
  /\ ev.sock \in Keys(rooms, ev.roomId)
  /\ ev.arg.audioEnabled = <<FALSE>>
  /\ ev.arg.videoEnabled = <<>>
  /\ mediaStates[ev.roomId][ev.sock].audioEnabled = FALSE
  /\ mediaStates[ev.roomId][ev.sock].videoEnabled = FALSE

\* C14: media:state leaves the sender's stored screen-sharing flag as it was,
\* and screen:share leaves the sender's stored audioEnabled and videoEnabled
\* as they were.
C14_FlagsIndependent ==
  [][ /\ (ev'.type = "media:state" /\ ev'.sock \in Keys(mediaStates, ev'.roomId))
         => mediaStates'[ev'.roomId][ev'.sock].isScreenSharing
              = mediaStates[ev'.roomId][ev'.sock].isScreenSharing
      /\ (ev'.type = "screen:share" /\ ev'.sock \in Keys(mediaStates, ev'.roomId))
         => /\ mediaStates'[ev'.roomId][ev'.sock].audioEnabled
                 = mediaStates[ev'.roomId][ev'.sock].audioEnabled
            /\ mediaStates'[ev'.roomId][ev'.sock].videoEnabled
                 = mediaStates[ev'.roomId][ev'.sock].videoEnabled ]_vars

C14_Witness ==
  /\ ev.type = "media:state"
  /\ ev.sock \in Keys(mediaStates, ev.roomId)
  /\ mediaStates[ev.roomId][ev.sock].isScreenSharing = TRUE
  /\ mediaStates[ev.roomId][ev.sock].audioEnabled = FALSE

\* C15: screen:share from a member stores `sharing` as the member's
\* screen-sharing flag and delivers screen:share, with the sender's id, the
\* value and the sender's stored displayName and photoURL, to every other
\* member of the room.
C15_ScreenShare ==
  (ev.type = "screen:share" /\ ev.sock \in Keys(rooms, ev.roomId))
  => /\ mediaStates[ev.roomId][ev.sock].isScreenSharing = ev.arg
     /\ Len(out) = 1
     /\ out[1].name = "screen:share"
     /\ out[1].data = [socketId |-> ev.sock, sharing |-> ev.arg,
                       displayName |-> rooms[ev.roomId][ev.sock].displayName,
                       photoURL |-> rooms[ev.roomId][ev.sock].photoURL]
     /\ Keys(rooms, ev.roomId) \ {ev.sock} \subseteq out[1].to

C15_Witness ==
  /\ ev.type = "screen:share"
  /\ ev.arg = TRUE
  /\ ev.sock \in Keys(rooms, ev.roomId)
  /\ Cardinality(Keys(rooms, ev.roomId)) = 3
  /\ Cardinality(out[1].to) = 2

\* C16: user:joined, user:left, media:state and screen:share are never
\* delivered to the connection whose event caused them and are delivered to
\* every other member of the room; chat:message is delivered to its sender.
C16_SenderExcluded ==
  [][ /\ \A i \in 1..Len(out') :
           out'[i].name \in {"user:joined", "user:left", "media:state", "screen:share"}
             => ev'.sock \notin out'[i].to
      /\ (ev'.type \in {"join:room", "media:state", "screen:share", "leave:room"})
           => \A i \in 1..Len(out') :
                out'[i].name \in {"user:joined", "user:left", "media:state", "screen:share"}
                  => Keys(rooms', ev'.roomId) \ {ev'.sock} \subseteq out'[i].to
      /\ ev'.type = "disconnect"
           => \A r \in RoomIds :
                ev'.sock \in Keys(rooms, r)
                  => \A m \in Keys(rooms, r) \ {ev'.sock} :
                       \E i \in 1..Len(out') : out'[i].name = "user:left" /\ m \in out'[i].to
      /\ (ev'.type = "chat:message" /\ ev'.sock \in Keys(rooms, ev'.roomId))
           => /\ ev'.sock \in out'[1].to
              /\ Keys(rooms, ev'.roomId) \subseteq out'[1].to ]_vars

C16_Witness ==
  /\ ev.type = "media:state"
  /\ ev.sock \in Keys(rooms, ev.roomId)
  /\ out[1].to = Keys(rooms, ev.roomId) \ {ev.sock}
  /\ Cardinality(out[1].to) = 2

\* C17: an event handled for connection c leaves every participant entry and
\* every media-state entry keyed by another connection as it was, in every
\* room.
C17_OnlyOwnEntries ==
  [][ \A r \in RoomIds : \A k \in Sockets \ {ev'.sock} :
        /\ k \in Keys(rooms, r) <=> k \in Keys(rooms', r)
        /\ k \in Keys(rooms, r) => rooms'[r][k] = rooms[r][k]
        /\ k \in Keys(mediaStates, r) <=> k \in Keys(mediaStates', r)
        /\ k \in Keys(mediaStates, r) => mediaStates'[r][k] = mediaStates[r][k] ]_vars

\* C18: a connection is a participant of at most one room.
C18_AtMostOneRoom ==
  \A c \in Sockets : Cardinality({r \in DOMAIN rooms : c \in DOMAIN rooms[r]}) <= 1

\* C19: leave:room, media:state and screen:share sent by a connection that is
\* not a member of the room they name (the room may not exist), and a
\* disconnect of a connection that is in no room, change neither registry.
C19_NonMemberNoOp ==
  [][ /\ ( /\ ev'.type \in {"leave:room", "media:state", "screen:share"}
           /\ ev'.sock \notin Keys(rooms, ev'.roomId) )
         => (rooms' = rooms /\ mediaStates' = mediaStates)
      /\ ( /\ ev'.type = "disconnect"
           /\ \A r \in RoomIds : ev'.sock \notin Keys(rooms, r) )
         => (rooms' = rooms /\ mediaStates' = mediaStates) ]_vars

\* C20: no room is kept without a participant and no participant entry is
\* kept for a connection that is gone, so a join to a room whose last member
\* was removed gets an empty existingUsers, and the existingUsers of any join
\* lists only connections that are participants of that room at that moment.
C20_NoDepartedInExistingUsers ==
  [][ /\ \A r \in DOMAIN rooms' :
           DOMAIN rooms'[r] # {} /\ DOMAIN rooms'[r] \subseteq DOMAIN sids'
      /\ (ev'.type = "join:room" /\ Len(out') = 3)
           => LET existing == {u.socketId : u \in out'[1].data.existingUsers}
              IN /\ existing = Keys(rooms, ev'.roomId) \ {ev'.sock}
                 /\ ev'.roomId \notin DOMAIN rooms => existing = {}
                 /\ \A c \in existing : c \in DOMAIN sids /\ ev'.roomId \in sids[c] ]_vars

C20_Witness ==
  /\ ev.type = "join:room"
  /\ Len(out) = 3
  /\ out[1].data.existingUsers = {}
  /\ closed # {}
  /\ DOMAIN rooms = {ev.roomId}
  /\ DOMAIN rooms[ev.roomId] = {ev.sock}

\* C21: an accepted join:room stores the joiner in both maps with audio on,
\* video on and screen sharing off, and sends media:states to the joiner only,
\* carrying the room's media-state map: exactly one entry per participant of
\* the room, the joiner included, with that participant's stored flags.
C21_JoinMediaStates ==
  (ev.type = "join:room" /\ Len(out) = 3)
  => /\ ev.sock \in Keys(rooms, ev.roomId)
     /\ ev.sock \in Keys(mediaStates, ev.roomId)
     /\ mediaStates[ev.roomId][ev.sock]
          = [audioEnabled |-> TRUE, videoEnabled |-> TRUE, isScreenSharing |-> FALSE]
     /\ out[2].name = "media:states"
     /\ out[2].to = {ev.sock}
     /\ out[2].data = mediaStates[ev.roomId]
     /\ DOMAIN out[2].data = Keys(rooms, ev.roomId)

\* C23: a signal whose `to` is not the id of a live connection is delivered
\* to no connection.
C23_SignalToAbsentDropped ==
  (ev.type = "signal" /\ ev.arg.to \notin Live)
  => \A i \in 1..Len(out) : out[i].to = {}

\* C24: from an empty store, A joins r and gets room:joined with no existing
\* user; B joins r and gets room:joined with exactly A's entry while A gets
\* user:joined for B; A disconnects, B gets user:left for A, and r is then
\* the only room, with B its only key in both registries.
C24_JoinJoinDisconnect ==
  [][ \A r \in RoomIds :
        /\ ( /\ ev'.type = "join:room" /\ ev'.roomId = r
             /\ rooms = EmptyMap /\ mediaStates = EmptyMap )
           => /\ Len(out') = 3
              /\ out'[1] = Emit("room:joined", {ev'.sock}, [roomId |-> r, existingUsers |-> {}])
        /\ \A a \in Sockets \ {ev'.sock} :
             ( /\ ev'.type = "join:room" /\ ev'.roomId = r
               /\ DOMAIN rooms = {r} /\ DOMAIN rooms[r] = {a}
               /\ DOMAIN mediaStates = {r} /\ DOMAIN mediaStates[r] = {a} )
             => /\ Len(out') = 3
                /\ out'[1].name = "room:joined" /\ out'[1].to = {ev'.sock}
                /\ out'[1].data.existingUsers = {rooms[r][a]}
                /\ out'[3].name = "user:joined" /\ a \in out'[3].to
                /\ out'[3].data.socketId = ev'.sock
        /\ \A b \in Sockets \ {ev'.sock} :
             ( /\ ev'.type = "disconnect"
               /\ DOMAIN rooms = {r} /\ DOMAIN rooms[r] = {ev'.sock, b}
               /\ DOMAIN mediaStates = {r} /\ DOMAIN mediaStates[r] = {ev'.sock, b} )
             => /\ \E i \in 1..Len(out') :
                     /\ out'[i].name = "user:left"
                     /\ out'[i].data = ev'.sock
                     /\ b \in out'[i].to
                /\ DOMAIN rooms' = {r} /\ DOMAIN rooms'[r] = {b}
                /\ DOMAIN mediaStates' = {r} /\ DOMAIN mediaStates'[r] = {b} ]_vars

C24_Witness ==
  /\ ev.type = "disconnect"
  /\ closed = {ev.sock}
  /\ Len(out) = 1 /\ out[1].name = "user:left" /\ out[1].data = ev.sock
  /\ \E r \in RoomIds : \E b \in Active :
       /\ b \in out[1].to
       /\ DOMAIN rooms = {r} /\ DOMAIN rooms[r] = {b}
       /\ DOMAIN mediaStates = {r} /\ DOMAIN mediaStates[r] = {b}

\* C26: once the disconnect handler has run for a connection, neither registry
\* has an entry keyed by it in any room, whatever the connection sent before.
C26_NoEntryAfterDisconnect ==
  \A c \in closed : \A r \in RoomIds :
    c \notin Keys(rooms, r) /\ c \notin Keys(mediaStates, r)

\* C28: between handlers a live connection is in the transport group of room
\* r exactly when it is a key of r's participant map.
C28_GroupIffParticipant ==
  \A s \in Live : \A r \in RoomIds : (r \in sids[s]) <=> (s \in Keys(rooms, r))

\* C29: chat:message, media:state and screen:share naming room r, sent by a
\* connection that is not a participant of r, are delivered to no member of r.
C29_OnlyMembersReachRoom ==
  ( /\ ev.type \in {"chat:message", "media:state", "screen:share"}
    /\ ev.sock \notin Keys(rooms, ev.roomId) )
  => \A i \in 1..Len(out) : out[i].to \cap Keys(rooms, ev.roomId) = {}

\* C30: the `from` of a delivered signal is the id of the connection that sent
\* it, and the profile attached is the one stored for that connection.
C30_SignalFromIsSender ==
  (ev.type = "signal" /\ out # <<>>)
  => /\ out[1].data.from = ev.sock
     /\ ev.sock \in Keys(rooms, ev.roomId)
          => /\ out[1].data.displayName = rooms[ev.roomId][ev.sock].displayName
             /\ out[1].data.userId = rooms[ev.roomId][ev.sock].userId

C25_ClientHoldsServerMediaStates ==
  [][ \A c \in Clients :
        ( /\ c \in DOMAIN inbox /\ c \in DOMAIN inbox'
          /\ Len(inbox'[c]) < Len(inbox[c])
          /\ Head(inbox[c]).name = "media:states" )
        => LET state == Head(inbox[c]).data
           IN \A k \in (DOMAIN state) \ {c} :
                /\ k \in DOMAIN client'[c].mediaStates
                /\ client'[c].mediaStates[k] = state[k] ]_vars

\* page a has been offered b: a room:joined listing b is in flight to a, or a
\* holds the timer for b or a peer toward b it created as initiator
OfferedTo(a, b) ==
  /\ a \in DOMAIN client
  /\ \/ \E i \in 1..Len(inbox[a]) :
          /\ inbox[a][i].name = "room:joined"
          /\ b \in {u.socketId : u \in inbox[a][i].data.existingUsers}
     \/ b \in client[a].timers
     \/ b \in DOMAIN client[a].peers /\ client[a].peers[b].initiator

\* C27: of two connections in the same room exactly one, the one that joined
\* later, is offered the other in existingUsers and initiates toward it; the
\* other creates a peer toward it only as responder and only with the offer it
\* received, so never do both sides of a pair initiate.
C27_OneInitiatorPerPair ==
  \A a \in Clients : \A b \in Clients \ {a} :
    /\ ~(OfferedTo(a, b) /\ OfferedTo(b, a))
    /\ ( /\ a \in DOMAIN client /\ b \in DOMAIN client
         /\ a \in Keys(rooms, PageRoom) /\ b \in Keys(rooms, PageRoom) )
       => (OfferedTo(a, b) \/ OfferedTo(b, a))
    /\ (a \in DOMAIN client /\ b \in DOMAIN client[a].peers /\ ~client[a].peers[b].initiator)
       => /\ client[a].peers[b].signaled # <<>>
          /\ client[a].peers[b].signaled[1] = "offer"
          /\ b \notin client[a].timers

C27_Witness ==
  \E a \in Clients : \E b \in Clients \ {a} :
    /\ a \in DOMAIN client /\ b \in DOMAIN client
    /\ a \in DOMAIN client[b].peers /\ b \in DOMAIN client[a].peers
    /\ client[b].peers[a].initiator
    /\ client[b].peers[a].signaled = <<"answer">>
    /\ ~client[a].peers[b].initiator
    /\ client[a].peers[b].signaled = <<"offer">>

\* C31: a join:room sent by a connection that is already a participant of
\* the room leaves the room's participant count and the connection's stored
\* media state as they were and delivers no second user:joined for it to the
\* members of the room.
C31_RejoinChangesNothing ==
  [][ (ev'.type = "join:room" /\ ev'.sock \in Keys(rooms, ev'.roomId))
        => /\ Cardinality(Keys(rooms', ev'.roomId)) = Cardinality(Keys(rooms, ev'.roomId))
           /\ ev'.sock \in Keys(mediaStates, ev'.roomId)
                => mediaStates'[ev'.roomId][ev'.sock] = mediaStates[ev'.roomId][ev'.sock]
           /\ \A i \in 1..Len(out') :
                out'[i].name = "user:joined"
                  => out'[i].to \cap Keys(rooms, ev'.roomId) = {} ]_vars

\* page c has processed the user:left of u: the connection u is gone and no
\* user:left for it is still in flight to c
LeftProcessed(c, u) ==
  /\ u \in closed
  /\ \A i \in 1..Len(inbox[c]) : ~(inbox[c][i].name = "user:left" /\ inbox[c][i].data = u)

\* C32: however the timer callbacks of room:joined interleave with user:left
\* events, a page creates no peer for, and does not put back in its
\* participant set, a connection whose user:left it has processed; once a
\* page has no event in flight and no timer pending, its participant set and
\* its peers name only itself and participants of the room.
C32_NoPeerForDeparted ==
  [][ \A c \in (DOMAIN client) \cap (DOMAIN client') :
        /\ \A u \in Clients \ {c} :
             LeftProcessed(c, u)
               => /\ u \notin DOMAIN client[c].peers => u \notin DOMAIN client'[c].peers
                  /\ u \notin client[c].participants => u \notin client'[c].participants
        /\ (inbox'[c] = <<>> /\ client'[c].timers = {})
             => /\ client'[c].participants \subseteq {c} \cup Keys(rooms', PageRoom)
                /\ DOMAIN client'[c].peers \subseteq Keys(rooms', PageRoom) ]_vars

\* page c processes a signal event sent as from p in this step
SignalFrom(c, p) ==
  /\ c \in DOMAIN inbox /\ c \in DOMAIN inbox'
  /\ Len(inbox'[c]) < Len(inbox[c])
  /\ Head(inbox[c]).name = "signal"
  /\ Head(inbox[c]).data.from = p

\* a peer for p appears on page c in this step
PeerCreated(c, p) == p \notin DOMAIN client[c].peers /\ p \in DOMAIN client'[c].peers

\* C33 as stated: every non-empty signal received from p while the page has
\* no peer for p is the initial signal of a peer created for it (an offer,
\* with the local stream ready) or is appended to p's pending list.
C33_EverySignalBuffered ==
  [][ \A c \in Pages : \A p \in Strangers :
        (c \in DOMAIN client /\ c \in DOMAIN client' /\ SignalFrom(c, p))
        => LET d == Head(inbox[c]).data
               pending == PendingOf(client[c], p)
           IN (NotFalsy(d.signal) /\ p \notin DOMAIN client[c].peers)
              => IF d.signal = "offer" /\ client[c].localStream
                 THEN /\ PeerCreated(c, p)
                      /\ client'[c].peers[p].signaled = <<d.signal>> \o pending
                 ELSE PendingOf(client'[c], p) = Append(pending, d.signal) ]_vars

\* C33, amended: every signal with a type, a candidate or renegotiate,
\* received from p while the page has no peer for p, is the initial signal of
\* a responder peer created for it (an offer, with the local stream ready) or
\* is appended to p's pending list, and any other signal is discarded; when
\* a peer for p is created it is given every pending signal of p once, in
\* arrival order, after its initial signal, and p's pending list is then
\* empty; the pending list changes in no other way.
C33_RecognisedSignalsBuffered ==
  [][ \A c \in Pages : \A p \in Strangers :
        (c \in DOMAIN client /\ c \in DOMAIN client')
        => LET pending == PendingOf(client[c], p)
               after == PendingOf(client'[c], p)
           IN /\ (SignalFrom(c, p) /\ Recognised(Head(inbox[c]).data.signal)
                    /\ p \notin DOMAIN client[c].peers)
                 => IF Head(inbox[c]).data.signal = "offer" /\ client[c].localStream
                    THEN /\ PeerCreated(c, p)
                         /\ ~client'[c].peers[p].initiator
                         /\ client'[c].peers[p].signaled = <<"offer">> \o pending
                         /\ after = <<>>
                    ELSE /\ p \notin DOMAIN client'[c].peers
                         /\ after = Append(pending, Head(inbox[c]).data.signal)
              /\ (SignalFrom(c, p) /\ ~Recognised(Head(inbox[c]).data.signal))
                 => client'[c] = client[c]
              /\ (PeerCreated(c, p) /\ ~SignalFrom(c, p))
                 => /\ client'[c].peers[p].signaled = pending
                    /\ after = <<>>
              /\ (~PeerCreated(c, p) /\ ~SignalFrom(c, p))
                 => after = pending ]_vars

C33_Witness ==
  \E c \in Pages : \E p \in Strangers :
    /\ c \in DOMAIN client
    /\ p \in DOMAIN client[c].peers
    /\ ~client[c].peers[p].initiator
    /\ client[c].peers[p].signaled = <<"offer", "offer", "candidate">>
    /\ p \in DOMAIN client[c].pendingSignals
    /\ client[c].pendingSignals[p] = <<>>

====
